---- MODULE Spec2Model ----
(***************************************************************************)
(* The epoch trainer of DSC_Workshop_Neural_Nets.ipynb: train(), test()    *)
(* and the two epoch loops that call them, as a state machine.             *)
(*                                                                         *)
(* The tensor library is outside the repository.  The network, its loss    *)
(* and its gradients are modelled by a small integer classifier with the   *)
(* same interface (scores per class, a scalar loss per batch, a gradient   *)
(* per parameter that accumulates until it is cleared).  Python floats are *)
(* modelled bit for bit as IEEE-754 binary64 values: a sign-free mantissa  *)
(* of DoubleBits bits and an exponent.                                     *)
(***************************************************************************)
EXTENDS Integers, Sequences, FiniteSets, TLC

(***************************************************************************)
(* Bounds of the model and constants of the program.                       *)
(***************************************************************************)
\* epochs = 100 in the notebook; bounded here
MaxEpochs == 2

\* the epochs of a long run, enough for two progress lines five epochs apart
LongEpochs == 6

\* batch_size = 32 in the notebook; bounded here
batch_size == 2

\* lr = 0.005 = LrNum / LrDen
LrNum == 5

LrDen == 1000

\* parameters are stored on a finite grid (float32 in the notebook): the
\* model keeps GridBits binary digits after the point
GridBits == 6

\* the factor of `correct * 100`
Percent == 100

\* progress is printed when epoch % PrintEvery == 0
PrintEvery == 5

\* mantissa width of a Python float
DoubleBits == 53

(***************************************************************************)
(* Python floats.  A positive float is [e |-> exponent, m |-> mantissa],   *)
(* the mantissa a sequence of DoubleBits bits, most significant first and  *)
(* leading with 1; its value is m[1].m[2]m[3]... * 2^e.                    *)
(***************************************************************************)
Zero == [e |-> 0, m |-> <<>>]

\* float('nan'): not a number, told apart by a mantissa that leads with 0
NaN == [e |-> 0, m |-> <<0>>]

Pow2(n) == 2 ^ n

\* the binary digits of a natural number, most significant first
RECURSIVE NatBits(_)
NatBits(n) == IF n = 0 THEN <<>> ELSE Append(NatBits(n \div 2), n % 2)

Zeros(n) == [i \in 1..n |-> 0]

\* the w low binary digits of a natural number, most significant first
ToBits(v, w) == [i \in 1..w |-> (v \div Pow2(w - i)) % 2]

\* the natural number the digits lo..hi of b stand for
RECURSIVE BitsVal(_, _, _)
BitsVal(b, lo, hi) ==
    IF hi < lo THEN 0 ELSE 2 * BitsVal(b, lo, hi - 1) + b[hi]

\* whether a mantissa of more than DoubleBits digits rounds up: round half
\* to even, `sticky` telling that non-zero digits follow the ones given
RoundsUp(bits, sticky) ==
    /\ Len(bits) > DoubleBits
    /\ bits[DoubleBits + 1] = 1
    /\ \/ sticky
       \/ \E i \in (DoubleBits + 2)..Len(bits) : bits[i] = 1
       \/ bits[DoubleBits] = 1

\* the float of exponent e and the digits given, rounded to DoubleBits
\* digits: adding one flips a digit when every digit after it is 1
RoundBits(e, bits, sticky) ==
    IF ~RoundsUp(bits, sticky) THEN [e |-> e, m |-> SubSeq(bits, 1, DoubleBits)]
    ELSE IF \A i \in 1..DoubleBits : bits[i] = 1
    THEN [e |-> e + 1, m |-> <<1>> \o Zeros(DoubleBits - 1)]
    ELSE [e |-> e,
          m |-> [i \in 1..DoubleBits |->
                   IF \E j \in (i + 1)..DoubleBits : bits[j] = 0
                   THEN bits[i] ELSE 1 - bits[i]]]

\* float(n) for a natural number below 2^DoubleBits
FromNat(n) ==
    IF n = 0 THEN Zero
    ELSE [e |-> Len(NatBits(n)) - 1,
          m |-> NatBits(n) \o Zeros(DoubleBits - Len(NatBits(n)))]

\* 2^i modulo den
RECURSIVE PowMod(_, _)
PowMod(i, den) ==
    IF i = 0 THEN 1 % den
    ELSE (((PowMod(i \div 2, den) ^ 2) % den) * (IF i % 2 = 1 THEN 2 ELSE 1)) % den

\* the remainder of the long division of r by den after i digits
DivRem(r, den, i) == (r * PowMod(i, den)) % den

\* the first k digits of r/den after the point, for 0 <= r < den
DivBits(r, den, k) == [i \in 1..k |-> (2 * DivRem(r, den, i - 1)) \div den]

\* the exponent of a/b: the e with 2^e <= a/b < 2^(e+1)
RECURSIVE DivExp(_, _)
DivExp(a, b) ==
    IF a >= 2 * b THEN DivExp(a, 2 * b) + 1
    ELSE IF a < b THEN DivExp(2 * a, b) - 1
    ELSE 0

\* a/b as num/den * 2^e with 1 <= num/den < 2
DivScale(a, b) ==
    [e   |-> DivExp(a, b),
     num |-> IF DivExp(a, b) < 0 THEN a * Pow2(0 - DivExp(a, b)) ELSE a,
     den |-> IF DivExp(a, b) > 0 THEN b * Pow2(DivExp(a, b)) ELSE b]

\* the quotient of a scaled division, rounded.  (Intermediate values are
\* bound by set constructors so that each is computed once.)
DivRound(d) ==
    CHOOSE f \in {RoundBits(d.e, bits, DivRem(d.num - d.den, d.den, DoubleBits) # 0) :
                    bits \in {<<1>> \o DivBits(d.num - d.den, d.den, DoubleBits)}} : TRUE

\* a / b in Python for two floats holding the natural numbers a and b > 0
FDiv(a, b) ==
    IF a = 0 THEN Zero
    ELSE CHOOSE f \in {DivRound(d) : d \in {DivScale(a, b)}} : TRUE

\* the digits of a mantissa in limbs of 13 binary digits, the least
\* significant limb first
Limbs(bits) ==
    [i \in 1..((Len(bits) + 12) \div 13) |->
        BitsVal(bits,
                IF Len(bits) - 13 * i + 1 > 1 THEN Len(bits) - 13 * i + 1 ELSE 1,
                Len(bits) - 13 * (i - 1))]

\* the carry into limb i of limbs * k
RECURSIVE MulCarry(_, _, _)
MulCarry(limbs, k, i) ==
    IF i = 1 THEN 0
    ELSE (limbs[i - 1] * k + MulCarry(limbs, k, i - 1)) \div Pow2(13)

\* limbs * k as binary digits, most significant first
RECURSIVE MulLimbs(_, _, _)
MulLimbs(limbs, k, i) ==
    IF i > Len(limbs) THEN NatBits(MulCarry(limbs, k, i))
    ELSE MulLimbs(limbs, k, i + 1)
           \o ToBits((limbs[i] * k + MulCarry(limbs, k, i)) % Pow2(13), 13)

\* the digits from the first 1 on
StripZeros(raw) ==
    SubSeq(raw,
           CHOOSE i \in 1..Len(raw) : raw[i] = 1 /\ \A j \in 1..(i - 1) : raw[j] = 0,
           Len(raw))

MulRound(e, bits) == RoundBits(e + Len(bits) - DoubleBits, bits, FALSE)

MulDigits(m, k) ==
    CHOOSE b \in {StripZeros(raw) :
                    raw \in {MulLimbs(limbs, k, 1) : limbs \in {Limbs(m)}}} : TRUE

\* f * k in Python for a float f and a float holding the natural number k > 0
FMul(f, k) ==
    IF f = Zero THEN Zero
    ELSE CHOOSE r \in {MulRound(f.e, bits) : bits \in {MulDigits(f.m, k)}} : TRUE

\* f < g in Python for two floats
BitsLess(a, b) ==
    \E i \in 1..Len(a) : a[i] < b[i] /\ \A j \in 1..(i - 1) : a[j] = b[j]

FLess(f, g) ==
    IF f = NaN \/ g = NaN THEN FALSE
    ELSE IF g = Zero THEN FALSE
    ELSE IF f = Zero THEN TRUE
    ELSE IF f.e # g.e THEN f.e < g.e
    ELSE BitsLess(f.m, g.m)

\* a variant: best_score = val_correct, the last accuracy
FMaxLast(f, g) == g

\* a variant: min in place of max
FMaxMin(f, g) == IF FLess(g, f) THEN g ELSE f

\* max(f, g) in Python: the first argument unless the second is greater
FMax(f, g) == IF FLess(f, g) THEN g ELSE f

(***************************************************************************)
(* The data sets and the loaders.  A sample is an input x (two pixel       *)
(* intensities) and a label y.                                             *)
(***************************************************************************)
Classes == {0, 1, 2}

Pixels == {1, 2}

S(a, b, y) == [x |-> <<a, b>>, y |-> y]

\* ImageFolder("data/train"): the training sets tried
TrainSets ==
    { <<>>,
      <<S(2, 0, 1), S(2, 0, 2), S(1, 0, 0)>>,
      <<S(2, 0, 1), S(0, 2, 0), S(0, 1, 2)>> }

\* ImageFolder("data/test"): the validation sets tried
ValSets ==
    { <<>>,
      <<S(2, 0, 1), S(2, 0, 2), S(0, 2, 0)>>,
      <<S(2, 0, 0), S(2, 0, 0), S(0, 2, 0), S(2, 0, 1), S(0, 1, 1),
        S(2, 0, 1), S(0, 2, 2), S(2, 0, 2), S(0, 1, 2), S(2, 0, 2)>> }

\* a variant: the partial last batch is not counted
LoaderLenFloor(n) == n \div batch_size

\* len(dataloader) of a DataLoader over n samples (drop_last is not set)
LoaderLen(n) == (n + batch_size - 1) \div batch_size

\* the k-th batch (k = 0, 1, ...) of a pass that visits the data set in `ord`
BatchIdx(ord, k) ==
    LET lo == k * batch_size + 1
        hi == IF (k + 1) * batch_size < Len(ord) THEN (k + 1) * batch_size
              ELSE Len(ord)
    IN  SubSeq(ord, lo, hi)

Identity(n) == [i \in 1..n |-> i]

Perms(n) ==
    {f \in [1..n -> 1..n] : \A i, j \in 1..n : i # j => f[i] # f[j]}

\* train_dataloader is built with shuffle=True: any order
TrainOrders(n) == Perms(n)

\* a variant: the validation loader yields the data set back to front
ValOrdersReversed(n) == {[i \in 1..n |-> n + 1 - i]}

\* val_dataloader is built with shuffle=False: the order of the data set
ValOrders(n) == {Identity(n)}

(***************************************************************************)
(* The network: one linear layer, a weight per class and pixel, in grid    *)
(* units of 2^-GridBits.                                                   *)
(***************************************************************************)
ParamScale == Pow2(GridBits)

\* a tensor element that is nan: a value no finite element takes
NaNGrid == 0 - Pow2(4 * GridBits)


\* a variant: a nan is left out of the sum
AddGridSkipsNaN(a, b) ==
    IF a = NaNGrid THEN b ELSE IF b = NaNGrid THEN a ELSE a + b

\* a + b of two tensor elements
AddGrid(a, b) == IF a = NaNGrid \/ b = NaNGrid THEN NaNGrid ELSE a + b

ZeroW == [c \in Classes |-> [j \in Pixels |-> 0]]

NaNW == [c \in Classes |-> [j \in Pixels |-> NaNGrid]]

HasNaN(W) == \E c \in Classes : \E j \in Pixels : W[c][j] = NaNGrid

\* NeuralNetwork(): the initial weights tried
InitModels ==
    { ZeroW,
      [c \in Classes |-> [j \in Pixels |-> IF c = j THEN 1 ELSE 0]] }

\* gradients left in the parameters by earlier executions
InitGrads ==
    { ZeroW,
      [c \in Classes |-> [j \in Pixels |-> IF c = 0 THEN 4 ELSE 0]] }

\* model(X): the scores of every sample of the batch
Score(W, x) ==
    [c \in Classes |->
        IF W[c][1] = NaNGrid \/ W[c][2] = NaNGrid THEN NaNGrid
        ELSE W[c][1] * x[1] + W[c][2] * x[2]]

Forward(W, X) == [i \in 1..Len(X) |-> Score(W, X[i].x)]

\* a variant: the highest index on ties
ArgMaxLast(s) ==
    CHOOSE c \in Classes :
        /\ \A d \in Classes : s[d] <= s[c]
        /\ \A d \in Classes : d > c => s[d] < s[c]

\* scores.argmax(): the index of the maximum, the lowest one on ties; a
\* nan counts as the maximum
ArgMax(s) ==
    IF \E c \in Classes : s[c] = NaNGrid
    THEN CHOOSE c \in Classes :
            /\ s[c] = NaNGrid
            /\ \A d \in Classes : d < c => s[d] # NaNGrid
    ELSE CHOOSE c \in Classes :
            /\ \A d \in Classes : s[d] <= s[c]
            /\ \A d \in Classes : d < c => s[d] < s[c]

\* the best scoring class other than y
Rival(s, y) ==
    CHOOSE c \in Classes \ {y} :
        /\ \A d \in Classes \ {y} : s[d] <= s[c]
        /\ \A d \in Classes \ {y} : d < c => s[d] < s[c]

\* the loss of one sample: a margin loss in place of the cross entropy
SampleLoss(s, y) ==
    LET v == ParamScale + s[Rival(s, y)] - s[y]
    IN  IF v > 0 THEN v ELSE 0

RECURSIVE SumSeq(_)
SumSeq(q) == IF q = <<>> THEN 0 ELSE q[1] + SumSeq(Tail(q))

\* loss_fn(pred, y).item() in grid units; the constant loss function of the
\* specification's scenario returns 1.0 whatever it is given; a loss that
\* has diverged, or the loss of scores that are nan, is nan
LossFn(kind, pred, X) ==
    IF kind = "const" THEN ParamScale
    ELSE IF kind = "nan" THEN NaNGrid
    ELSE IF \E i \in 1..Len(X) : \E c \in Classes : pred[i][c] = NaNGrid
    THEN NaNGrid
    ELSE SumSeq([i \in 1..Len(X) |-> SampleLoss(pred[i], X[i].y)])

\* the gradient of the loss of one sample with respect to W[c][j]
SampleGrad(s, smp, c, j) ==
    IF SampleLoss(s, smp.y) = 0 THEN 0
    ELSE IF c = Rival(s, smp.y) THEN smp.x[j]
    ELSE IF c = smp.y THEN 0 - smp.x[j]
    ELSE 0

\* the gradient loss.backward() computes for the batch; the gradient of a
\* loss that is nan is nan
Gradient(kind, W, X) ==
    IF kind = "nan" \/ HasNaN(W) THEN NaNW
    ELSE [c \in Classes |-> [j \in Pixels |->
            IF kind = "const" THEN 0
            ELSE SumSeq([i \in 1..Len(X) |->
                            SampleGrad(Score(W, X[i].x), X[i], c, j)])]]

AddW(A, B) == [c \in Classes |-> [j \in Pixels |-> AddGrid(A[c][j], B[c][j])]]

\* n / d rounded to the nearest integer, halves to the even one
RoundHalfEven(n, d) ==
    LET q == n \div d
        r == n - q * d
    IN  IF 2 * r < d THEN q
        ELSE IF 2 * r > d THEN q + 1
        ELSE IF q % 2 = 0 THEN q ELSE q + 1

\* a variant: the update has the wrong sign
SGDStepAscent(W, g) ==
    [c \in Classes |-> [j \in Pixels |->
        W[c][j] + RoundHalfEven(LrNum * g[c][j] * ParamScale, LrDen)]]

\* optimizer.step() of SGD: p <- p - lr * p.grad, rounded to the grid
SGDStep(W, g) ==
    [c \in Classes |-> [j \in Pixels |->
        IF W[c][j] = NaNGrid \/ g[c][j] = NaNGrid THEN NaNGrid
        ELSE W[c][j] - RoundHalfEven(LrNum * g[c][j] * ParamScale, LrDen)]]

\* the number of samples of the batch whose prediction is the label
NumCorrect(pred, X) ==
    Cardinality({i \in 1..Len(X) : ArgMax(pred[i]) = X[i].y})

\* the float of a loss total of r grid units divided by n: the grid is
\* binary, so the division by 2^GridBits only lowers the exponent
LossAvg(r, n) ==
    IF r = NaNGrid THEN NaN
    ELSE CHOOSE v \in {IF f = Zero THEN Zero
                       ELSE [e |-> f.e - GridBits, m |-> f.m] :
                         f \in {FDiv(r, n)}} : TRUE

(***************************************************************************)
(* The state.                                                              *)
(***************************************************************************)
VARIABLES
    pc,            \* the statement the notebook is at
    run,           \* 1: the first training cell, 2: the second
    epochs,        \* the number of epochs the cell sets
    loss_kind,     \* loss_fn: "margin" or "const"
    train_set,     \* the data set behind train_dataloader
    val_set,       \* the data set behind val_dataloader
    model,         \* the parameters of the model
    grad,          \* the .grad of the parameters
    training,      \* model.training
    grad_enabled,  \* torch.is_grad_enabled()
    no_grad_prev,  \* the state torch.no_grad() restores on exit
    epoch,         \* the loop variable: the epochs completed
    num_batches,   \* local of train() and test()
    size,          \* local of test()
    order,         \* the order the running pass visits its data set in
    batch,         \* the batches the running pass has consumed
    X,             \* the batch in hand, inputs and labels
    pred,          \* the scores of the batch in hand
    graph,         \* whether pred carries a graph to differentiate
    loss,          \* the loss of the batch in hand
    running_loss,  \* local of train() and test()
    correct,       \* local of test()
    train_loss,    \* what train() returned
    val_correct,   \* what test() returned, first component
    val_loss,      \* what test() returned, second component
    train_losses,
    val_losses,
    best_score,
    out,           \* the progress lines printed
    reported,      \* the best scores printed
    seen,          \* history: the batch losses of the running pass
    ops,           \* history: the steps taken on the batch in hand
    tvisited,      \* history: the samples the training pass has processed
    evisited,      \* history: the samples the validation pass has processed
    snap,          \* history: the parameters when test() was entered
    accs,          \* history: the accuracy of every completed epoch
    ran,           \* history: the epochs whose training pass was started
    before,        \* history: the parameters before the last optimizer step
    reset_called,  \* history: the layers whose reset_parameters() has run
    calls,         \* evaluation harness: the call of test() running
    first          \* evaluation harness: what the first call returned

vars ==
    <<pc, run, epochs, loss_kind, train_set, val_set, model, grad, training,
      grad_enabled, no_grad_prev, epoch, num_batches, size, order, batch, X,
      pred, graph, loss, running_loss, correct, train_loss, val_correct,
      val_loss, train_losses, val_losses, best_score, out, reported, seen,
      ops, tvisited, evisited, snap, accs, ran, before, reset_called, calls, first>>

inputs == <<run, epochs, loss_kind, train_set, val_set>>

locals == <<num_batches, size, order, batch, X, pred, graph, loss,
            running_loss, correct>>

results == <<train_loss, val_correct, val_loss>>

books == <<epoch, train_losses, val_losses, best_score, out, reported, accs>>

harness == <<calls, first>>

hist == <<ran, before, reset_called>>

\* nothing has run yet: no locals, no results, no histories
Fresh ==
    /\ grad_enabled = TRUE
    /\ no_grad_prev = TRUE
    /\ epoch = 0
    /\ num_batches = 0
    /\ size = 0
    /\ order = <<>>
    /\ batch = 0
    /\ X = <<>>
    /\ pred = <<>>
    /\ graph = FALSE
    /\ loss = 0
    /\ running_loss = 0
    /\ correct = 0
    /\ train_loss = Zero
    /\ val_correct = Zero
    /\ val_loss = Zero
    /\ train_losses = <<>>
    /\ val_losses = <<>>
    /\ best_score = Zero
    /\ out = <<>>
    /\ reported = <<>>
    /\ seen = <<>>
    /\ ops = <<>>
    /\ tvisited = <<>>
    /\ evisited = <<>>
    /\ snap = ZeroW
    /\ accs = <<>>
    /\ ran = <<>>
    /\ before = ZeroW
    /\ reset_called = {}
    /\ first = <<>>

\* the notebook before a training cell runs; an earlier execution of the
\* first cell may have left any parameters, gradients and mode behind
Init ==
    /\ pc = "start"
    /\ run \in {1, 2}
    /\ epochs = MaxEpochs
    /\ loss_kind \in {"margin", "const"}
    /\ train_set \in TrainSets
    /\ val_set \in ValSets
    /\ model \in (IF run = 1 THEN InitModels ELSE {ZeroW})
    /\ grad \in (IF run = 1 THEN InitGrads ELSE {ZeroW})
    /\ training \in BOOLEAN
    /\ calls = 0
    /\ Fresh

(***************************************************************************)
(* The head of a training cell.                                            *)
(***************************************************************************)
\* the direct children of NeuralNetwork and the layers they hold
Children == {"flatten", "linear_relu_stack", "last_layer"}


\* the layers that hold the tunable parameters: the nn.Linear layers inside
\* the two nn.Sequential containers
Linears ==
    {"linear_relu_stack.0", "linear_relu_stack.2", "linear_relu_stack.4",
     "last_layer.0"}

\* of the layers, nn.Linear alone defines reset_parameters; nn.Flatten and
\* nn.Sequential do not
HasResetParameters(layer) == layer \notin {"flatten", "linear_relu_stack", "last_layer"}

\* the reset loop of the first cell over model.children()
ResetChildren(W) ==
    IF \E layer \in Children : HasResetParameters(layer) THEN ZeroW ELSE W

StartRun ==
    /\ pc = "start"
    /\ IF run = 1
       THEN /\ model' = ResetChildren(model)
            /\ grad' = grad
            /\ reset_called' = {layer \in Children : HasResetParameters(layer)}
       ELSE /\ model' \in InitModels
            /\ grad' = ZeroW
            /\ reset_called' = reset_called
    /\ epoch' = 0
    /\ best_score' = Zero
    /\ train_losses' = <<>>
    /\ val_losses' = <<>>
    /\ pc' = "loop"
    /\ UNCHANGED <<inputs, training, grad_enabled, no_grad_prev, locals,
                   results, out, reported, seen, ops, tvisited, evisited,
                   snap, accs, harness, ran, before>>

(***************************************************************************)
(* train(dataloader, model, loss_fn, optimizer)                            *)
(***************************************************************************)
BatchOf(data, ord, k) ==
    LET idx == BatchIdx(ord, k) IN [i \in 1..Len(idx) |-> data[idx[i]]]

MoreBatches == batch * batch_size < Len(order)

\* a variant: one iteration too many
LoopRunsOneMore == epoch <= epochs

\* for epoch in range(epochs): whether an iteration is left
LoopRuns == epoch < epochs


\* a variant: train() does not call model.train()
TrainBeginKeepsMode ==
    /\ pc = "loop"
    /\ LoopRuns
    /\ num_batches' = LoaderLen(Len(train_set))
    /\ running_loss' = 0
    /\ order' \in TrainOrders(Len(train_set))
    /\ batch' = 0
    /\ seen' = <<>>
    /\ tvisited' = <<>>
    /\ evisited' = <<>>
    /\ ran' = Append(ran, epoch)
    /\ pc' = "t_next"
    /\ UNCHANGED <<inputs, model, grad, training, grad_enabled, no_grad_prev,
                   size, X, pred, graph, loss, correct, results, books, ops,
                   snap, harness, before, reset_called>>

TrainBegin ==
    /\ pc = "loop"
    /\ LoopRuns
    /\ num_batches' = LoaderLen(Len(train_set))
    /\ training' = TRUE
    /\ running_loss' = 0
    /\ order' \in TrainOrders(Len(train_set))
    /\ batch' = 0
    /\ seen' = <<>>
    /\ tvisited' = <<>>
    /\ evisited' = <<>>
    /\ ran' = Append(ran, epoch)
    /\ pc' = "t_next"
    /\ UNCHANGED <<inputs, model, grad, grad_enabled, no_grad_prev, size, X,
                   pred, graph, loss, correct, results, books, ops, snap,
                   harness, before, reset_called>>

TrainFetch ==
    /\ pc = "t_next"
    /\ MoreBatches
    /\ X' = BatchOf(train_set, order, batch)
    /\ ops' = <<>>
    /\ pc' = "t_forward"
    /\ UNCHANGED <<inputs, model, grad, training, grad_enabled, no_grad_prev,
                   num_batches, size, order, batch, pred, graph, loss,
                   running_loss, correct, results, books, seen, tvisited,
                   evisited, snap, harness, hist>>

TrainForward ==
    /\ pc = "t_forward"
    /\ pred' = Forward(model, X)
    /\ graph' = grad_enabled
    /\ ops' = Append(ops, "forward")
    /\ pc' = "t_loss"
    /\ UNCHANGED <<inputs, model, grad, training, grad_enabled, no_grad_prev,
                   num_batches, size, order, batch, X, loss, running_loss,
                   correct, results, books, seen, tvisited, evisited, snap,
                   harness, hist>>

TrainLoss ==
    /\ pc = "t_loss"
    /\ loss' = LossFn(loss_kind, pred, X)
    /\ ops' = Append(ops, "loss")
    /\ pc' = "t_zero"
    /\ UNCHANGED <<inputs, model, grad, training, grad_enabled, no_grad_prev,
                   num_batches, size, order, batch, X, pred, graph,
                   running_loss, correct, results, books, seen, tvisited,
                   evisited, snap, harness, hist>>

\* a variant: optimizer.zero_grad() is left out
TrainZeroGradSkipped ==
    /\ pc = "t_zero"
    /\ ops' = Append(ops, "zero_grad")
    /\ pc' = "t_backward"
    /\ UNCHANGED <<inputs, model, grad, training, grad_enabled, no_grad_prev,
                   locals, results, books, seen, tvisited, evisited, snap,
                   harness, hist>>

TrainZeroGrad ==
    /\ pc = "t_zero"
    /\ grad' = ZeroW
    /\ ops' = Append(ops, "zero_grad")
    /\ pc' = "t_backward"
    /\ UNCHANGED <<inputs, model, training, grad_enabled, no_grad_prev,
                   locals, results, books, seen, tvisited, evisited, snap,
                   harness, hist>>

\* loss.backward() adds the gradient of the loss to what .grad holds; it
\* raises when the loss carries no graph
TrainBackward ==
    /\ pc = "t_backward"
    /\ IF graph
       THEN /\ grad' = AddW(grad, Gradient(loss_kind, model, X))
            /\ ops' = Append(ops, "backward")
            /\ pc' = "t_step"
       ELSE /\ pc' = "error"
            /\ UNCHANGED <<grad, ops>>
    /\ UNCHANGED <<inputs, model, training, grad_enabled, no_grad_prev,
                   locals, results, books, seen, tvisited, evisited, snap,
                   harness, hist>>

TrainOptStep ==
    /\ pc = "t_step"
    /\ model' = SGDStep(model, grad)
    /\ before' = model
    /\ ops' = Append(ops, "step")
    /\ pc' = "t_accum"
    /\ UNCHANGED <<inputs, grad, training, grad_enabled, no_grad_prev,
                   locals, results, books, seen, tvisited, evisited, snap,
                   harness, ran, reset_called>>

TrainAccum ==
    /\ pc = "t_accum"
    /\ running_loss' = AddGrid(running_loss, loss)
    /\ seen' = Append(seen, loss)
    /\ tvisited' = tvisited \o BatchIdx(order, batch)
    /\ batch' = batch + 1
    /\ pc' = "t_next"
    /\ UNCHANGED <<inputs, model, grad, training, grad_enabled, no_grad_prev,
                   num_batches, size, order, X, pred, graph, loss, correct,
                   results, books, ops, evisited, snap, harness, hist>>


\* a variant: the average of no batches is taken to be 0
TrainReturnGuarded ==
    /\ pc = "t_next"
    /\ ~MoreBatches
    /\ train_loss' = IF num_batches = 0 THEN Zero
                     ELSE LossAvg(running_loss, num_batches)
    /\ pc' = "test"
    /\ UNCHANGED <<inputs, model, grad, training, grad_enabled, no_grad_prev,
                   locals, val_correct, val_loss, books, seen, ops, tvisited,
                   evisited, snap, harness, hist>>

\* avg_loss = running_loss / num_batches; return avg_loss
TrainReturn ==
    /\ pc = "t_next"
    /\ ~MoreBatches
    /\ IF num_batches = 0
       THEN /\ pc' = "error"
            /\ UNCHANGED train_loss
       ELSE /\ train_loss' = LossAvg(running_loss, num_batches)
            /\ pc' = "test"
    /\ UNCHANGED <<inputs, model, grad, training, grad_enabled, no_grad_prev,
                   locals, val_correct, val_loss, books, seen, ops, tvisited,
                   evisited, snap, harness, hist>>

(***************************************************************************)
(* test(dataloader, model, loss_fn)                                        *)
(***************************************************************************)
\* a variant: the running totals are not reset on entry
TestBeginNoReset ==
    /\ pc = "test"
    /\ size' = Len(val_set)
    /\ num_batches' = LoaderLen(Len(val_set))
    /\ training' = FALSE
    /\ no_grad_prev' = grad_enabled
    /\ grad_enabled' = FALSE
    /\ order' \in ValOrders(Len(val_set))
    /\ batch' = 0
    /\ seen' = <<>>
    /\ evisited' = <<>>
    /\ snap' = model
    /\ pc' = "e_next"
    /\ UNCHANGED <<inputs, model, grad, X, pred, graph, loss, running_loss,
                   correct, results, books, ops, tvisited, harness, hist>>

TestBegin ==
    /\ pc = "test"
    /\ size' = Len(val_set)
    /\ num_batches' = LoaderLen(Len(val_set))
    /\ training' = FALSE
    /\ running_loss' = 0
    /\ correct' = 0
    /\ no_grad_prev' = grad_enabled
    /\ grad_enabled' = FALSE
    /\ order' \in ValOrders(Len(val_set))
    /\ batch' = 0
    /\ seen' = <<>>
    /\ evisited' = <<>>
    /\ snap' = model
    /\ pc' = "e_next"
    /\ UNCHANGED <<inputs, model, grad, X, pred, graph, loss, results, books,
                   ops, tvisited, harness, hist>>

TestFetch ==
    /\ pc = "e_next"
    /\ MoreBatches
    /\ X' = BatchOf(val_set, order, batch)
    /\ pc' = "e_forward"
    /\ UNCHANGED <<inputs, model, grad, training, grad_enabled, no_grad_prev,
                   num_batches, size, order, batch, pred, graph, loss,
                   running_loss, correct, results, books, seen, ops, tvisited,
                   evisited, snap, harness, hist>>

TestForward ==
    /\ pc = "e_forward"
    /\ pred' = Forward(model, X)
    /\ graph' = grad_enabled
    /\ pc' = "e_loss"
    /\ UNCHANGED <<inputs, model, grad, training, grad_enabled, no_grad_prev,
                   num_batches, size, order, batch, X, loss, running_loss,
                   correct, results, books, seen, ops, tvisited, evisited,
                   snap, harness, hist>>

\* a variant: the validation step also backpropagates and updates
TestLossAndStep ==
    /\ pc = "e_loss"
    /\ running_loss' = running_loss + LossFn(loss_kind, pred, X)
    /\ seen' = Append(seen, LossFn(loss_kind, pred, X))
    /\ model' = SGDStep(model, Gradient(loss_kind, model, X))
    /\ pc' = "e_correct"
    /\ UNCHANGED <<inputs, grad, training, grad_enabled, no_grad_prev,
                   num_batches, size, order, batch, X, pred, graph, loss,
                   correct, results, books, ops, tvisited, evisited, snap,
                   harness, hist>>

\* running_loss += loss_fn(preds, y).item()
TestLoss ==
    /\ pc = "e_loss"
    /\ running_loss' = AddGrid(running_loss, LossFn(loss_kind, pred, X))
    /\ seen' = Append(seen, LossFn(loss_kind, pred, X))
    /\ pc' = "e_correct"
    /\ UNCHANGED <<inputs, model, grad, training, grad_enabled, no_grad_prev,
                   num_batches, size, order, batch, X, pred, graph, loss,
                   correct, results, books, ops, tvisited, evisited, snap,
                   harness, hist>>

\* correct += (preds.argmax(1) == y).type(torch.float).sum().item()
TestCorrect ==
    /\ pc = "e_correct"
    /\ correct' = correct + NumCorrect(pred, X)
    /\ evisited' = evisited \o BatchIdx(order, batch)
    /\ batch' = batch + 1
    /\ pc' = "e_next"
    /\ UNCHANGED <<inputs, model, grad, training, grad_enabled, no_grad_prev,
                   num_batches, size, order, X, pred, graph, loss,
                   running_loss, results, books, seen, ops, tvisited, snap,
                   harness, hist>>

\* correct /= size; return correct * 100
Accuracy(k, n) == CHOOSE v \in {FMul(q, Percent) : q \in {FDiv(k, n)}} : TRUE


\* a variant: test() keeps the best score itself
TestReturnTracksBest ==
    /\ pc = "e_next"
    /\ ~MoreBatches
    /\ grad_enabled' = no_grad_prev
    /\ IF num_batches = 0
       THEN /\ pc' = "error"
            /\ UNCHANGED <<val_correct, val_loss, best_score>>
       ELSE /\ val_loss' = LossAvg(running_loss, num_batches)
            /\ val_correct' = Accuracy(correct, size)
            /\ best_score' = FMax(best_score, Accuracy(correct, size))
            /\ pc' = "book"
    /\ UNCHANGED <<inputs, model, grad, training, no_grad_prev, locals,
                   train_loss, epoch, train_losses, val_losses, out, reported,
                   accs, seen, ops, tvisited, evisited, snap, harness, hist>>

\* the end of the with block, the two averages and the return
TestReturn ==
    /\ pc = "e_next"
    /\ ~MoreBatches
    /\ grad_enabled' = no_grad_prev
    /\ IF num_batches = 0
       THEN /\ pc' = "error"
            /\ UNCHANGED <<val_correct, val_loss>>
       ELSE /\ val_loss' = LossAvg(running_loss, num_batches)
            /\ val_correct' = Accuracy(correct, size)
            /\ pc' = "book"
    /\ UNCHANGED <<inputs, model, grad, training, no_grad_prev, locals,
                   train_loss, books, seen, ops, tvisited, evisited, snap,
                   harness, hist>>

(***************************************************************************)
(* The epoch loop.                                                         *)
(***************************************************************************)

\* a variant: the progress line counts epochs from one
PrintDueOneBased ==
    \/ (epoch + 1) % PrintEvery = 0
    \/ run = 2 /\ epoch + 1 = epochs

\* the condition of the progress line: the second cell also prints the
\* last epoch
PrintDue ==
    \/ epoch % PrintEvery = 0
    \/ run = 2 /\ epoch + 1 = epochs


\* a variant: the histories keep the newest entry in front
EpochBookPrepends ==
    /\ pc = "book"
    /\ train_losses' = <<train_loss>> \o train_losses
    /\ val_losses' = <<val_loss>> \o val_losses
    /\ out' = IF PrintDue
              THEN Append(out, [epoch |-> epoch + 1, train_loss |-> train_loss,
                                val_loss |-> val_loss, val_correct |-> val_correct])
              ELSE out
    /\ best_score' = FMax(best_score, val_correct)
    /\ accs' = Append(accs, val_correct)
    /\ epoch' = epoch + 1
    /\ pc' = "loop"
    /\ UNCHANGED <<inputs, model, grad, training, grad_enabled, no_grad_prev,
                   locals, results, reported, seen, ops, tvisited, evisited,
                   snap, harness, hist>>

EpochBook ==
    /\ pc = "book"
    /\ train_losses' = Append(train_losses, train_loss)
    /\ val_losses' = Append(val_losses, val_loss)
    /\ out' = IF PrintDue
              THEN Append(out, [epoch |-> epoch + 1, train_loss |-> train_loss,
                                val_loss |-> val_loss, val_correct |-> val_correct])
              ELSE out
    /\ best_score' = FMax(best_score, val_correct)
    /\ accs' = Append(accs, val_correct)
    /\ epoch' = epoch + 1
    /\ pc' = "loop"
    /\ UNCHANGED <<inputs, model, grad, training, grad_enabled, no_grad_prev,
                   locals, results, reported, seen, ops, tvisited, evisited,
                   snap, harness, hist>>

\* print(f'Best score: ...') after the loop
FinalPrint ==
    /\ pc = "loop"
    /\ ~LoopRuns
    /\ reported' = Append(reported, best_score)
    /\ pc' = "done"
    /\ UNCHANGED <<inputs, model, grad, training, grad_enabled, no_grad_prev,
                   locals, results, epoch, train_losses, val_losses,
                   best_score, out, seen, ops, tvisited, evisited, snap, accs,
                   harness, hist>>

\* a call into the tensor library raises: nothing catches it, and the with
\* block of test() restores gradient tracking on the way out
RaisePcs == {"t_forward", "t_loss", "t_backward", "t_step", "e_forward", "e_loss"}


\* a variant: the best score is printed on the way out of a failing run
RaiseThenReport ==
    /\ pc \in RaisePcs
    /\ grad_enabled' = IF pc \in {"e_forward", "e_loss"} THEN no_grad_prev
                       ELSE grad_enabled
    /\ reported' = Append(reported, best_score)
    /\ pc' = "error"
    /\ UNCHANGED <<inputs, model, grad, training, no_grad_prev, locals,
                   results, epoch, train_losses, val_losses, best_score, out,
                   accs, seen, ops, tvisited, evisited, snap, harness, hist>>


\* a variant: test() switches gradient tracking off and on by hand, so an
\* error inside it leaves tracking off
RaiseNoRestore ==
    /\ pc \in RaisePcs
    /\ pc' = "error"
    /\ UNCHANGED <<inputs, model, grad, training, grad_enabled, no_grad_prev,
                   locals, results, books, seen, ops, tvisited, evisited,
                   snap, harness, hist>>

Raise ==
    /\ pc \in RaisePcs
    /\ grad_enabled' = IF pc \in {"e_forward", "e_loss"} THEN no_grad_prev
                       ELSE grad_enabled
    /\ pc' = "error"
    /\ UNCHANGED <<inputs, model, grad, training, no_grad_prev, locals,
                   results, books, seen, ops, tvisited, evisited, snap,
                   harness, hist>>

Next ==
    \/ StartRun
    \/ TrainBegin
    \/ TrainFetch
    \/ TrainForward
    \/ TrainLoss
    \/ TrainZeroGrad
    \/ TrainBackward
    \/ TrainOptStep
    \/ TrainAccum
    \/ TrainReturn
    \/ TestBegin
    \/ TestFetch
    \/ TestForward
    \/ TestLoss
    \/ TestCorrect
    \/ TestReturn
    \/ EpochBook
    \/ FinalPrint
    \/ Raise

Spec == Init /\ [][Next]_vars

(***************************************************************************)
(* test() called twice in a row on the same loader and model, as a test   *)
(* of the evaluation step would call it.                                   *)
(***************************************************************************)
\* the parameters tried: every weight 0 or 1 grid unit
EvalModels == [Classes -> [Pixels -> {0, 1}]]

InitEval ==
    /\ pc = "test"
    /\ run = 1
    /\ epochs = MaxEpochs
    /\ loss_kind \in {"margin", "const"}
    /\ train_set = <<>>
    /\ val_set \in ValSets
    /\ model \in EvalModels
    /\ grad \in InitGrads
    /\ training \in BOOLEAN
    /\ calls = 1
    /\ Fresh

\* the first call has returned: keep its result and call again
EvalAgain ==
    /\ pc = "book"
    /\ calls = 1
    /\ first' = <<val_correct, val_loss>>
    /\ calls' = 2
    /\ pc' = "test"
    /\ UNCHANGED <<inputs, model, grad, training, grad_enabled, no_grad_prev,
                   locals, results, books, seen, ops, tvisited, evisited,
                   snap, hist>>

\* the second call has returned
EvalDone ==
    /\ pc = "book"
    /\ calls = 2
    /\ pc' = "done"
    /\ UNCHANGED <<inputs, model, grad, training, grad_enabled, no_grad_prev,
                   locals, results, books, seen, ops, tvisited, evisited,
                   snap, harness, hist>>

NextEval ==
    \/ TestBegin
    \/ TestFetch
    \/ TestForward
    \/ TestLoss
    \/ TestCorrect
    \/ TestReturn
    \/ EvalAgain
    \/ EvalDone

SpecEval == InitEval /\ [][NextEval]_vars

\* the run is never starved: the notebook runs its statements to the end
FairSpec == Spec /\ WF_vars(Next)

(***************************************************************************)
(* Properties.                                                             *)
(***************************************************************************)

(***************************************************************************)
(* A long run: enough epochs for the progress line to come round again,    *)
(* on one small data set whose training pass is a single batch.            *)
(***************************************************************************)
LongTrainSet == <<S(2, 0, 1), S(0, 2, 2)>>

LongValSet == <<S(2, 0, 1), S(2, 0, 2), S(0, 2, 0)>>

InitLong ==
    /\ pc = "start"
    /\ run \in {1, 2}
    /\ epochs = LongEpochs
    /\ loss_kind = "margin"
    /\ train_set = LongTrainSet
    /\ val_set = LongValSet
    /\ model \in (IF run = 1 THEN InitModels ELSE {ZeroW})
    /\ grad = ZeroW
    /\ training \in BOOLEAN
    /\ calls = 0
    /\ Fresh

SpecLong == InitLong /\ [][Next]_vars

(***************************************************************************)
(* Properties.                                                             *)
(***************************************************************************)


(***************************************************************************)
(* A run whose loss has diverged: every batch loss of the training pass is *)
(* nan.                                                                    *)
(***************************************************************************)
InitNaN ==
    /\ pc = "start"
    /\ run \in {1, 2}
    /\ epochs = MaxEpochs
    /\ loss_kind = "nan"
    /\ train_set \in TrainSets
    /\ val_set \in ValSets
    /\ model \in (IF run = 1 THEN InitModels ELSE {ZeroW})
    /\ grad \in (IF run = 1 THEN InitGrads ELSE {ZeroW})
    /\ training \in BOOLEAN
    /\ calls = 0
    /\ Fresh

SpecNaN == InitNaN /\ [][Next]_vars

TrainPcs == {"t_next", "t_forward", "t_loss", "t_zero", "t_backward", "t_step", "t_accum"}

TestPcs == {"e_next", "e_forward", "e_loss", "e_correct"}

\* n / d rounded up
CeilDiv(n, d) == CHOOSE k \in 0..n : k * d >= n /\ (k - 1) * d < n

\* f <= g for two floats
FLeq(f, g) == ~FLess(g, f)

\* C1: best_score never decreases: no step of a run takes it to a smaller
\* value, whatever accuracies the epochs return.
C1_BestScoreNeverDecreases == [][FLeq(best_score, best_score')]_vars

\* an epoch returned a smaller accuracy than the one before it, and its
\* bookkeeping has run
C1_Witness ==
    /\ pc = "loop"
    /\ Len(accs) = 2
    /\ FLess(accs[2], accs[1])
    /\ best_score = accs[1]

\* the running best score after the accuracies of q, as the loop updates it
RECURSIVE BestAfter(_)
BestAfter(q) ==
    IF q = <<>> THEN Zero
    ELSE FMax(BestAfter(SubSeq(q, 1, Len(q) - 1)), q[Len(q)])

\* m is the greatest of 0 and the members of q
IsGreatest(m, q) ==
    /\ m = Zero \/ \E i \in 1..Len(q) : q[i] = m
    /\ \A i \in 1..Len(q) : FLeq(q[i], m)

\* C2: after k completed epochs best_score is the greatest of 0 and the
\* accuracies test() returned in epochs 1..k, the final score printed is
\* that value, and the accuracies 10, 40, 25, 60, 55 give 60.
C2_BestScoreIsMaximum ==
    /\ Len(accs) = epoch
    /\ IsGreatest(best_score, accs)
    /\ pc = "done" => reported = <<best_score>>
    /\ BestAfter(<<FromNat(10), FromNat(40), FromNat(25), FromNat(60), FromNat(55)>>)
         = FromNat(60)

\* a finished run whose best accuracy was not the one of the last epoch
C2_Witness ==
    /\ pc = "done"
    /\ Len(accs) = epochs
    /\ \E i \in 1..(epochs - 1) : FLess(accs[epochs], accs[i]) /\ reported = <<accs[i]>>

\* C3: a run in which nothing raises reaches Completed; it is Completed
\* only after the epochs 0 .. epochs-1 have each run once, in that order;
\* nothing runs after Completed.
C3_RunCompletes ==
    /\ [](pc # "error") => <>(pc = "done")
    /\ [](ran = [i \in 1..Len(ran) |-> i - 1])
    /\ [](pc = "done" => Len(ran) = epochs /\ epoch = epochs)
    /\ [][pc = "done" => pc' = "done"]_vars

\* Completed, after every epoch has trained and validated
C3_Witness ==
    /\ pc = "done"
    /\ Len(ran) = epochs
    /\ Len(val_losses) = epochs

\* C4: in every epoch the training pass has processed every sample of the
\* training set once, in as many batches as the loader has, before the
\* validation pass starts; the validation pass processes every sample once
\* in the order of the data set; the epoch counter advances by one, and
\* only in the bookkeeping that follows both passes.
C4_PassesInOrder ==
    /\ [](pc \in TrainPcs => evisited = <<>>)
    /\ [](pc \in {"test"} \union TestPcs \union {"book"} =>
            /\ tvisited \in Perms(Len(train_set))
            /\ Len(ran) = epoch + 1)
    /\ [](pc = "test" => Len(seen) = CeilDiv(Len(train_set), batch_size))
    /\ [](pc \in TestPcs => evisited = SubSeq(Identity(Len(val_set)), 1, Len(evisited)))
    /\ [](pc = "book" =>
            /\ evisited = Identity(Len(val_set))
            /\ Len(seen) = CeilDiv(Len(val_set), batch_size))
    /\ [][epoch' # epoch => pc = "book" /\ epoch' = epoch + 1]_vars

\* the second epoch has run both passes, the training pass in a shuffled
\* order
C4_Witness ==
    /\ pc = "book"
    /\ epoch = 1
    /\ Len(train_set) > batch_size
    /\ tvisited # Identity(Len(train_set))
    /\ Len(val_set) > batch_size

\* C5: the average loss train() and test() return is the sum of the batch
\* losses of the pass divided by ceil(size / batch_size), that many losses
\* having been accumulated; when every batch loss is the same value, the
\* average is exactly that value.
C5_AverageLoss ==
    /\ pc = "test" =>
         /\ Len(seen) = CeilDiv(Len(train_set), batch_size)
         /\ train_loss = LossAvg(SumSeq(seen), CeilDiv(Len(train_set), batch_size))
         /\ (\A i \in 1..Len(seen) : seen[i] = seen[1]) => train_loss = LossAvg(seen[1], 1)
    /\ pc = "book" =>
         /\ Len(seen) = CeilDiv(Len(val_set), batch_size)
         /\ val_loss = LossAvg(SumSeq(seen), CeilDiv(Len(val_set), batch_size))
         /\ (\A i \in 1..Len(seen) : seen[i] = seen[1]) => val_loss = LossAvg(seen[1], 1)

\* train() has returned 1.0 for two batches, the last one partial, of
\* loss 1.0 each
C5_Witness ==
    /\ pc = "test"
    /\ loss_kind = "const"
    /\ Len(seen) = 2
    /\ Len(train_set) % batch_size # 0
    /\ train_loss = FromNat(1)

\* c is the index of the maximum of s, the lowest one on ties
IsPrediction(s, c) ==
    /\ \A d \in Classes : s[d] <= s[c]
    /\ \A d \in Classes : d < c => s[d] < s[c]

\* the samples of data the parameters W classify as labelled
CorrectIn(W, data) ==
    Cardinality({i \in 1..Len(data) : IsPrediction(Score(W, data[i].x), data[i].y)})

\* C6 as stated: the accuracy test() returns is 100 * num_correct /
\* num_val_samples.
C6_AccuracyIsExactQuotient ==
    pc = "book" => val_correct = FDiv(Percent * CorrectIn(snap, val_set), Len(val_set))

\* C6, amended: the accuracy test() returns is num_correct /
\* num_val_samples, rounded to a float, times 100, rounded again; it lies
\* in [0, 100]; num_correct counts the samples of the data set whose
\* maximum score, the lowest index on ties, is at their label.
C6_AccuracyIsQuotientTimes100 ==
    pc = "book" =>
        /\ correct = CorrectIn(snap, val_set)
        /\ val_correct = FMul(FDiv(CorrectIn(snap, val_set), Len(val_set)), Percent)
        /\ FLeq(Zero, val_correct)
        /\ FLeq(val_correct, FromNat(Percent))

\* the scenario of the specification: ten samples, three of them of class
\* 0, and a model that predicts class 0 for every one give 30.0
C6_Witness ==
    /\ pc = "book"
    /\ [i \in 1..Len(val_set) |-> val_set[i].y] = <<0, 0, 0, 1, 1, 1, 2, 2, 2, 2>>
    /\ \A i \in 1..Len(val_set) : IsPrediction(Score(model, val_set[i].x), 0)
    /\ val_correct = FromNat(30)

TestStepKeeps ==
    pc \in {"test"} \union TestPcs =>
        model' = model /\ grad' = grad /\ ops' = ops

\* C7: test() leaves the parameters as it found them: no step of it
\* changes a parameter, a gradient or the record of training steps, and
\* when it returns the parameters are the ones it was entered with.
C7_TestKeepsParameters ==
    /\ [](pc \in TestPcs \union {"book"} => model = snap)
    /\ [][TestStepKeeps]_vars

\* test() has returned in the second epoch, on parameters training has
\* moved and that a training step on the validation data would move again
C7_Witness ==
    /\ pc = "book"
    /\ epoch = 1
    /\ model # ZeroW
    /\ Len(val_set) > batch_size
    /\ SGDStep(model, Gradient(loss_kind, model, val_set)) # model

\* C8: two calls of test() in a row on the same loader, with no training
\* between them, return the same accuracy and the same average loss.
C8_TestTwiceSameResult ==
    pc = "done" /\ calls = 2 => first = <<val_correct, val_loss>>

\* both calls have returned, on a data set with a partial last batch that
\* the model classifies partly right, with a loss that is not zero
C8_Witness ==
    /\ pc = "done"
    /\ calls = 2
    /\ Len(val_set) % batch_size # 0
    /\ correct > 0
    /\ correct < size
    /\ running_loss > 0

StepOrder == <<"forward", "loss", "zero_grad", "backward", "step">>

TrainStepPcs == {"t_forward", "t_loss", "t_zero", "t_backward", "t_step", "t_accum"}

\* C9: a training step runs forward pass, loss, clearing of the gradients,
\* backward pass and optimizer update in that order, and the gradients the
\* update consumes are the gradients of the loss of the batch in hand, with
\* nothing left in them from an earlier batch, epoch or execution.
C9_UpdateUsesThisBatchOnly ==
    /\ pc \in TrainStepPcs => ops = SubSeq(StepOrder, 1, Len(ops))
    /\ pc = "t_step" => Len(ops) = 4 /\ grad = Gradient(loss_kind, model, X)
    /\ pc = "t_accum" =>
         /\ ops = StepOrder
         /\ grad = Gradient(loss_kind, before, X)
         /\ model = SGDStep(before, Gradient(loss_kind, before, X))

\* the update of a second batch of a second epoch, every batch before it
\* having had gradients
C9_Witness ==
    /\ pc = "t_accum"
    /\ loss_kind = "margin"
    /\ epoch = 1
    /\ batch = 1
    /\ grad # ZeroW

Abs(n) == IF n < 0 THEN 0 - n ELSE n

OnlyWriters ==
    /\ model' # model => pc = "t_step" /\ pc' = "t_accum"
    /\ best_score' # best_score => pc = "book" /\ pc' = "loop"
    /\ train_losses' # train_losses => pc = "book" /\ pc' = "loop"
    /\ val_losses' # val_losses => pc = "book" /\ pc' = "loop"

\* C11: during a run the parameters change only in the optimizer update of
\* train(); best_score, train_losses and val_losses change only in the
\* bookkeeping that follows both passes, so train() and test() return with
\* the three as they found them.
C11_OnlyWriters == [][pc # "start" => OnlyWriters]_vars

\* the second epoch is about to start: training has moved the parameters,
\* the bookkeeping has raised the best score and filled the histories
C11_Witness ==
    /\ pc = "loop"
    /\ epoch = 1
    /\ model # before
    /\ best_score # Zero
    /\ Len(train_losses) = 1
    /\ Len(val_losses) = 1

\* C12: an error raised in an epoch ends the run where it is: no step
\* follows it (no retry, no later batch or epoch, no Completed), the best
\* score is not printed, the histories hold one entry for each epoch
\* completed before it and best_score is the greatest accuracy of those.
C12_ErrorEndsRun ==
    /\ [][pc # "error"]_vars
    /\ [](pc = "error" =>
            /\ reported = <<>>
            /\ Len(ran) = epoch + 1
            /\ Len(train_losses) = epoch
            /\ Len(val_losses) = epoch
            /\ Len(accs) = epoch
            /\ IsGreatest(best_score, accs))

\* the backward pass of the second batch of the second epoch has raised,
\* after an epoch that scored
C12_Witness ==
    /\ pc = "error"
    /\ epoch = 1
    /\ batch = 1
    /\ ops = <<"forward", "loss", "zero_grad">>
    /\ best_score # Zero

\* what a step does to the two averages and to the histories: train() and
\* test() return the average of the pass just made, the average of the
\* training pass is kept while test() runs, the bookkeeping appends the
\* two, and no other step touches the histories
HistoryStep ==
    /\ pc = "t_next" /\ pc' = "test" =>
         train_loss' = LossAvg(SumSeq(seen), Len(seen))
    /\ pc \in {"test"} \union TestPcs => train_loss' = train_loss
    /\ pc = "e_next" /\ pc' = "book" =>
         val_loss' = LossAvg(SumSeq(seen), Len(seen))
    /\ pc = "book" =>
         /\ train_losses' = Append(train_losses, train_loss)
         /\ val_losses' = Append(val_losses, val_loss)
    /\ pc # "book" =>
         /\ train_losses' = train_losses
         /\ val_losses' = val_losses

\* C13: after k completed epochs train_losses and val_losses have k
\* entries each; the entry an epoch appends is the average loss its
\* training pass and its validation pass returned; no step changes or
\* removes an entry that is there.
C13_HistoriesAppendOnly ==
    /\ [](Len(train_losses) = epoch /\ Len(val_losses) = epoch)
    /\ [][HistoryStep]_vars

\* a finished run whose two epochs had different averages
C13_Witness ==
    /\ pc = "done"
    /\ Len(train_losses) = 2
    /\ train_losses[1] # train_losses[2]
    /\ val_losses[1] # val_losses[2]

\* the progress line of an epoch, as the loop prints it
LineOf(k) ==
    [epoch |-> k, train_loss |-> train_losses[k], val_loss |-> val_losses[k],
     val_correct |-> accs[k]]

\* a step prints a progress line only as the bookkeeping of an epoch, after
\* its validation pass has returned, and the line holds what the two passes
\* of that epoch returned; it prints the best score only on leaving the loop
\* after the last epoch
ReportStep ==
    /\ out' # out =>
         /\ pc = "book"
         /\ out' = Append(out, [epoch |-> epoch + 1, train_loss |-> train_loss,
                                val_loss |-> val_loss, val_correct |-> val_correct])
    /\ reported' # reported =>
         /\ pc = "loop"
         /\ epoch = epochs
         /\ pc' = "done"

\* C14: the first epoch and every fifth epoch after it has a progress line;
\* every line holds the epoch index, the two average losses and the accuracy
\* of one and the same completed epoch, the lines are in epoch order, and a
\* line is printed after the validation pass of its epoch; the best score
\* is printed once, after the last epoch, and not before.
C14_ProgressAndFinalReport ==
    /\ [](\A k \in 1..epoch :
            (k - 1) % PrintEvery = 0 => \E i \in 1..Len(out) : out[i].epoch = k)
    /\ [](\A i \in 1..Len(out) :
            /\ out[i].epoch \in 1..epoch
            /\ out[i] = LineOf(out[i].epoch)
            /\ \/ (out[i].epoch - 1) % PrintEvery = 0
               \/ run = 2 /\ out[i].epoch = epochs)
    /\ [](\A i, j \in 1..Len(out) : i < j => out[i].epoch < out[j].epoch)
    /\ [](reported = IF pc = "done" THEN <<best_score>> ELSE <<>>)
    /\ [](pc = "done" => epoch = epochs /\ Len(ran) = epochs)
    /\ [][ReportStep]_vars

\* a finished run of the first cell that printed the first epoch and the
\* one five epochs later, with different losses
C14_Witness ==
    /\ pc = "done"
    /\ run = 1
    /\ Len(out) = 2
    /\ out[1].epoch = 1
    /\ out[2].epoch = PrintEvery + 1
    /\ out[1].train_loss # out[2].train_loss
    /\ reported = <<best_score>>

\* a loss of the run was nan
NaNInHistories ==
    \/ \E i \in 1..Len(train_losses) : train_losses[i] = NaN
    \/ \E i \in 1..Len(val_losses) : val_losses[i] = NaN

\* C15 as stated: a run whose losses are nan finishes with a best score
\* that is not the greatest validation accuracy of the run.
C15_NaNCorruptsBestScore ==
    pc = "done" /\ NaNInHistories => ~IsGreatest(reported[1], accs)

\* C15, amended: nan losses go into the histories as they are, no step
\* looks at them, and the best score stays right: the accuracy of every
\* epoch is a number from 0 to 100, counted from the predictions, and
\* best_score is the greatest of them, which a finished run prints.
C15_NaNLeavesBestScore ==
    /\ Len(train_losses) = epoch
    /\ Len(val_losses) = epoch
    /\ \A i \in 1..epoch : train_losses[i] = NaN /\ val_losses[i] = NaN
    /\ \A i \in 1..Len(accs) : accs[i] # NaN /\ FLeq(accs[i], FromNat(Percent))
    /\ IsGreatest(best_score, accs)
    /\ pc = "done" => epoch = epochs /\ reported = <<best_score>>

\* a run has finished every epoch on losses that were nan, with parameters
\* that are nan, and printed an accuracy above 0
C15_Witness ==
    /\ pc = "done"
    /\ epoch = epochs
    /\ train_losses[epochs] = NaN
    /\ val_losses[epochs] = NaN
    /\ model = NaNW
    /\ reported # <<Zero>>

\* C16: gradient tracking is off at every step of the validation pass, its
\* forward passes build no graph, and it is on everywhere else: before and
\* after test(), after an error raised inside test(), and at every training
\* step of every epoch, whose forward pass builds the graph backward() needs.
C16_NoGradOnlyInTest ==
    /\ pc \in TestPcs => ~grad_enabled
    /\ pc \in {"e_loss", "e_correct"} => ~graph
    /\ pc \notin TestPcs => grad_enabled
    /\ pc \in {"t_loss", "t_zero", "t_backward", "t_step"} => graph

\* a forward pass or a loss computation of test() has raised on a later
\* batch of the validation pass, and tracking is on again
C16_Witness ==
    /\ pc = "error"
    /\ evisited # <<>>
    /\ Len(evisited) < Len(val_set)
    /\ ~graph
    /\ grad_enabled

\* C17: once the head of the first training cell has run, reset_parameters()
\* has been called on every layer that holds parameters, the linear layers
\* inside the sequential containers included.
C17_ResetReinitialisesAll ==
    run = 1 /\ pc # "start" => reset_called = Linears

\* C18: the model is in train mode at every step of a training pass and in
\* eval mode at every step of a validation pass, in every epoch; it is in
\* eval mode when an epoch has completed and when the run has.
C18_ModeMatchesPass ==
    /\ pc \in TrainPcs => training
    /\ pc \in TestPcs \union {"book"} => ~training
    /\ pc = "loop" /\ epoch >= 1 => ~training
    /\ pc = "done" => ~training

\* a training step of the second epoch, after the validation pass of the
\* first left the model in eval mode
C18_Witness ==
    /\ pc = "t_forward"
    /\ epoch = 1
    /\ training
    /\ accs # <<>>

\* a loader of the run yields no batch
EmptyLoader == train_set = <<>> \/ val_set = <<>>

\* C19: with an empty training or validation loader the run ends in an
\* error in its first epoch: the pass over the empty loader returns no
\* average and no accuracy, no bookkeeping runs, the histories stay empty
\* and best_score stays 0.
C19_EmptyLoaderFails ==
    /\ EmptyLoader => <>(pc = "error")
    /\ [](EmptyLoader =>
            /\ pc \notin {"book", "done"}
            /\ epoch = 0
            /\ train_losses = <<>>
            /\ val_losses = <<>>
            /\ accs = <<>>
            /\ best_score = Zero)
    /\ [](train_set = <<>> =>
            pc \in {"start", "loop", "t_next", "error"} /\ train_loss = Zero)
    /\ [](val_set = <<>> => val_loss = Zero /\ val_correct = Zero)

\* the training pass of the first epoch has returned its average, and
\* test() has failed on the empty validation loader
C19_Witness ==
    /\ pc = "error"
    /\ val_set = <<>>
    /\ train_set # <<>>
    /\ Len(tvisited) = Len(train_set)
    /\ train_loss # Zero
    /\ num_batches = 0
    /\ epoch = 0
====
